---- MODULE Spec2Model ----
(***************************************************************************)
(* mycontacts-app: the toast notification surface (ToastContainer), the    *)
(* event bridge it subscribes to, and the Home page's contact deletion,    *)
(* which publishes the notifications.                                      *)
(*                                                                         *)
(* Source files:                                                           *)
(*   src/src/components/Toast/ToastContainer/index.tsx                     *)
(*   src/src/pages/Home/index.tsx                                          *)
(* The event bridge (@utils/toast: ToastEventManager and the toast         *)
(* helpers) and the per-entry item (@components/Toast/ToastMessage) are    *)
(* imported by these files and modelled from the specification's          *)
(* sections 4.1, 4.2 and 5.                                                *)
(***************************************************************************)
EXTENDS Integers, Sequences, FiniteSets, TLC

(* ------------------------------ bounds -------------------------------- *)

\* Publishes of 'addtoast' in one behaviour.
MaxPublish == 3

\* Mounts of the ToastContainer in one behaviour.
MaxMounts == 2

\* Distinct values Math.random() is drawn from.
NumIds == 2

\* Contacts the server holds at the start.
NumContacts == 2

\* Requests of one kind (list, delete) that may be in flight together.
MaxInFlight == 1

\* listContacts requests in flight at once.
MaxLoads == 2

\* Handlers other code registers on the bridge, besides the surface's.
NumProbes == 1

(* ------------------------------ data ---------------------------------- *)

\* The values Math.random() can return (ToastContainer line 23).
Ids == 1..NumIds

SuccessText == "Contato deletado com sucesso!"

DangerText == "Ocorreu um erro ao deletar o contato!"

\* toast.sucess(text) / toast.danger(text): the payload the wrapper builds.
SuccessPayload == [type |-> "success", text |-> SuccessText]

DangerPayload == [type |-> "danger", text |-> DangerText]

\* The payloads this repository's callers publish.
Payloads == {SuccessPayload, DangerPayload}

\* An event name other than the surface's.
OtherEvent == "other"

EventNames == {"addtoast", OtherEvent}

\* The handlers of other subscribers; the surface's are 1..MaxMounts.
Probes == {0 - p : p \in 1..NumProbes}

\* The contacts of the remote API; listContacts orders them by name, and the
\* names here are in the order of the ids.
\* A string is the sequence of its characters.
Names == << <<"A", "n", "a">>, <<"B", "i", "a">>, <<"C", "a", "i", "o">>,
           <<"D", "a", "v", "i">>, <<"E", "v", "a">> >>

ContactOf(i) == [id |-> i, name |-> Names[i]]

ContactIds == 1..NumContacts

NoContact == [id |-> 0, name |-> << >>]

(* ------------------------------ state --------------------------------- *)

VARIABLES
    listeners,  \* event bridge: event name -> handlers, in registration order
    mounted,    \* the ToastContainer is mounted
    instance,   \* which mount this is; names the handleAddToast of that mount
    messages,   \* ToastContainer's messages state
    timers,     \* pending auto-removal timers: [pub, id], the entry each item holds
    log,        \* history: every payload published, with the handlers subscribed then
    calls,      \* history: every handler invocation, [h, pub]
    mountAt,    \* history: Len(log) when the current mount subscribed
    removed,    \* history: a removal was requested since the current mount
    dismissed,  \* history: identities of the entries the user dismissed
    lastOp,     \* history: the operation that produced this state
    isLoading,            \* Home state
    isDeletingContact,    \* Home state
    hasError,             \* Home state
    contacts,             \* Home state: the contacts shown, a sequence
    orderBy,              \* Home state: "ASC" or "DESC"
    searchTerm,           \* Home state: the search text, a sequence of characters
    showDeleteModal,      \* Home state
    contactBeingDeleted,  \* Home state: a contact, or NoContact for null
    loadReqs,             \* listContacts calls in flight: the orderBy each was made with
    deleteReqs,           \* deleteContact calls in flight: the contact each closure holds
    server,               \* ids of the contacts the remote API holds
    typed                 \* history: the value of the last change event of the search input

toastVars == <<listeners, mounted, instance, messages, timers, log, calls,
               mountAt, removed, dismissed>>

homeVars == <<isLoading, isDeletingContact, hasError, contacts, orderBy,
              searchTerm, showDeleteModal, contactBeingDeleted, loadReqs,
              deleteReqs, server, typed>>

vars == <<toastVars, homeVars, lastOp>>

(* --------------------------- event bridge ----------------------------- *)

\* subscribe(eventName, handler): registered after the handlers already there.
on(L, ev, h) == [L EXCEPT ![ev] = Append(@, h)]

\* unsubscribe(eventName, handler): a no-op when the handler is absent.
removeListener(L, ev, h) == [L EXCEPT ![ev] = SelectSeq(@, LAMBDA x : x # h)]

(* ------------------------- ToastContainer ----------------------------- *)

\* Mutant: the surface starts with the notifications published before it
\* mounted, as if the bridge had queued them.
InitialMessagesReplay(history) ==
    [k \in 1..Len(history) |->
        [id |-> 1, type |-> history[k].payload.type,
         text |-> history[k].payload.text, pub |-> k]]

\* useState<Message[]>([]); history is what was published before the mount,
\* which the initial state does not read.
InitialMessages(history) == << >>

\* Mutant: the new entry goes first.
handleAddToastFirst(prevState, payload, rnd, pub) ==
    <<[id |-> rnd, type |-> payload.type, text |-> payload.text, pub |-> pub]>>
        \o prevState

\* The state updater of handleAddToast: the new entry goes last.
\* pub is the history field naming the publish the entry was created from.
handleAddToast(prevState, payload, rnd, pub) ==
    Append(prevState,
           [id |-> rnd, type |-> payload.type, text |-> payload.text, pub |-> pub])

\* Mutant: the filter keeps the entries it should drop.
handleRemoveMessageKeepOnly(prevState, id) ==
    SelectSeq(prevState, LAMBDA message : message.id = id)

\* Mutant: the filtered list is thrown away.
handleRemoveMessageNoop(prevState, id) == prevState

\* The state updater of handleRemoveMessage.
handleRemoveMessage(prevState, id) ==
    SelectSeq(prevState, LAMBDA message : message.id # id)

\* The publish numbers of the entries of a list.
Pubs(msgs) == {msgs[i].pub : i \in 1..Len(msgs)}

\* The identities of the entries of a list.
IdsOf(msgs) == {msgs[i].id : i \in 1..Len(msgs)}

\* Mutant: no timer is ever cancelled.
CancelTimersNone(pending, msgs) == pending

\* ToastMessage: an item that leaves the rendered list is unmounted and its
\* pending timer cancelled with it.
CancelTimers(pending, msgs) == {t \in pending : t.pub \in Pubs(msgs)}

\* ToastMessage: a new item starts its timer when it is rendered; the timer's
\* callback holds the item's message.id.
StartTimers(pending, msgs, before) ==
    pending \cup {[pub |-> msgs[i].pub, id |-> msgs[i].id] :
                    i \in {j \in 1..Len(msgs) : msgs[j].pub \notin Pubs(before)}}

\* The handlers subscribed by the surface's lifecycle.
Subscribed == IF mounted THEN {instance} ELSE {}

\* emit(eventName, payload): every registered handler, in registration order.
\* A handler of a mount that is gone sets the state of an unmounted
\* component, which React ignores.
RECURSIVE Deliver(_, _, _, _, _)
Deliver(hs, msgs, payload, rnd, pub) ==
    IF hs = << >> THEN msgs
    ELSE Deliver(Tail(hs),
                 IF mounted /\ Head(hs) = instance
                     THEN handleAddToast(msgs, payload, rnd, pub)
                     ELSE msgs,
                 payload, rnd, pub)

\* Mutant: the handlers are invoked last-registered first.
InvocationsReversed(hs, pub) ==
    [i \in 1..Len(hs) |-> [h |-> hs[Len(hs) + 1 - i], pub |-> pub]]

\* The invocations emit makes, in order: one per registered handler.
Invocations(hs, pub) == [i \in 1..Len(hs) |-> [h |-> hs[i], pub |-> pub]]

\* toast.sucess(text), toast.danger(text) ->
\* ToastEventManager.emit('addtoast', payload), as a step relation on the
\* notification state.
Emit(payload, rnd, op) ==
    LET pub == Len(log) + 1
        hs  == listeners["addtoast"]
        new == Deliver(hs, messages, payload, rnd, pub)
    IN  /\ log' = Append(log, [payload |-> payload, subs |-> Subscribed])
        /\ calls' = calls \o Invocations(hs, pub)
        /\ messages' = new
        /\ timers' = StartTimers(timers, new, messages)
        /\ lastOp' = [op |-> op, pub |-> pub, id |-> rnd]
        /\ UNCHANGED <<listeners, mounted, instance, mountAt, removed, dismissed>>

\* useEffect(() => { ToastEventManager.on('addtoast', handleAddToast) ... }, [])
EffectSubscribe(L, h) == on(L, "addtoast", h)

\* Mutant: the cleanup leaves the handler registered.
EffectCleanupKeep(L, h) == L

\* return () => ToastEventManager.removeListener('addtoast', handleAddToast)
EffectCleanup(L, h) == removeListener(L, "addtoast", h)

\* The ToastContainer mounts: fresh state, then the effect subscribes.
Mount ==
    /\ ~mounted
    /\ instance < MaxMounts
    /\ mounted' = TRUE
    /\ instance' = instance + 1
    /\ messages' = InitialMessages(log)
    /\ timers' = StartTimers({}, messages', << >>)
    /\ listeners' = EffectSubscribe(listeners, instance + 1)
    /\ mountAt' = Len(log)
    /\ removed' = FALSE
    /\ lastOp' = [op |-> "mount", pub |-> 0, id |-> 0]
    /\ dismissed' = {}
    /\ UNCHANGED <<log, calls>>
    /\ UNCHANGED homeVars

\* The ToastContainer unmounts: the effect's cleanup runs, the state and the
\* rendered items go away.
Unmount ==
    /\ mounted
    /\ mounted' = FALSE
    /\ listeners' = EffectCleanup(listeners, instance)
    /\ messages' = << >>
    /\ timers' = CancelTimers(timers, messages')
    /\ lastOp' = [op |-> "unmount", pub |-> 0, id |-> 0]
    /\ UNCHANGED <<instance, log, calls, mountAt, removed, dismissed>>
    /\ UNCHANGED homeVars

\* onRemove(id): handleRemoveMessage sets the state of the mounted surface (a
\* surface that is gone ignores it); pending are the timers not yet spent.
Remove(id, pending) ==
    /\ messages' = (IF mounted THEN handleRemoveMessage(messages, id) ELSE messages)
    /\ timers' = CancelTimers(pending, messages')
    /\ removed' = TRUE
    /\ UNCHANGED <<listeners, mounted, instance, log, calls, mountAt>>

\* A caller publishes a notification through the bridge: toast.sucess(text) or
\* toast.danger(text).
Notify(p) ==
    /\ Len(log) < MaxPublish
    /\ \E rnd \in Ids : Emit(p, rnd, "notify")
    /\ UNCHANGED homeVars

\* The user dismisses a rendered item: onRemove(message.id).
Dismiss(i) ==
    /\ mounted
    /\ i \in 1..Len(messages)
    /\ Remove(messages[i].id, timers)
    /\ dismissed' = dismissed \cup {messages[i].id}
    /\ lastOp' = [op |-> "dismiss", pub |-> messages[i].pub, id |-> messages[i].id]
    /\ UNCHANGED homeVars

\* The auto-removal timer of a rendered item elapses: onRemove(message.id).
TimerFire(n) ==
    /\ \E t \in timers :
          /\ t.pub = n
          /\ Remove(t.id, timers \ {t})
          /\ lastOp' = [op |-> "timer", pub |-> n, id |-> t.id]
    /\ UNCHANGED dismissed
    /\ UNCHANGED homeVars

\* remove(identity) called with an identity of the caller's choosing: a
\* repeated or late call, or one with an unknown identity.
RemoveCall(id) ==
    /\ mounted
    /\ Remove(id, timers)
    /\ lastOp' = [op |-> "remove", pub |-> 0, id |-> id]
    /\ UNCHANGED dismissed
    /\ UNCHANGED homeVars

\* Other code subscribes a handler of its own to an event of the bridge.
Subscribe(ev, h) ==
    /\ \A i \in 1..Len(listeners[ev]) : listeners[ev][i] # h
    /\ listeners' = on(listeners, ev, h)
    /\ lastOp' = [op |-> "subscribe", pub |-> 0, id |-> h]
    /\ UNCHANGED <<mounted, instance, messages, timers, log, calls, mountAt,
                   removed, dismissed>>
    /\ UNCHANGED homeVars

\* Other code unsubscribes its handler.
Unsubscribe(ev, h) ==
    /\ \E i \in 1..Len(listeners[ev]) : listeners[ev][i] = h
    /\ listeners' = removeListener(listeners, ev, h)
    /\ lastOp' = [op |-> "unsubscribe", pub |-> 0, id |-> h]
    /\ UNCHANGED <<mounted, instance, messages, timers, log, calls, mountAt,
                   removed, dismissed>>
    /\ UNCHANGED homeVars

\* emit(OtherEvent, payload): the handlers of that event, none of which is
\* the surface's. Capped by the publishes and invocations recorded.
PublishOther ==
    /\ Len(calls) + Len(log) < MaxPublish
    /\ calls' = calls \o Invocations(listeners[OtherEvent], 0)
    /\ lastOp' = [op |-> "publish", pub |-> 0, id |-> 0]
    /\ UNCHANGED <<listeners, mounted, instance, messages, timers, log, mountAt,
                   removed, dismissed>>
    /\ UNCHANGED homeVars

(* ------------------------------- Home --------------------------------- *)

\* The letters that have an upper case, and their lower case.
UpperCase == <<"A", "B", "C", "D", "E", "I", "N">>

LowerCase == <<"a", "b", "c", "d", "e", "i", "n">>

WhiteSpace == {" "}

\* Mutant: the strings are compared as they are.
toLowerCaseIdentity(str) == str

\* String.prototype.toLowerCase.
toLowerCase(str) ==
    [i \in 1..Len(str) |->
        IF \E u \in 1..Len(UpperCase) : UpperCase[u] = str[i]
          THEN LowerCase[CHOOSE u \in 1..Len(UpperCase) : UpperCase[u] = str[i]]
          ELSE str[i]]

\* str starts with the characters of part.
RECURSIVE StartsWith(_, _)
StartsWith(str, part) ==
    IF part = << >> THEN TRUE
    ELSE IF str = << >> THEN FALSE
    ELSE Head(str) = Head(part) /\ StartsWith(Tail(str), Tail(part))

\* String.prototype.includes: part occurs in str, looked for from the left.
RECURSIVE includes(_, _)
includes(str, part) ==
    IF StartsWith(str, part) THEN TRUE
    ELSE IF str = << >> THEN FALSE
    ELSE includes(Tail(str), part)

RECURSIVE TrimStart(_)
TrimStart(str) ==
    IF str # << >> /\ Head(str) \in WhiteSpace THEN TrimStart(Tail(str)) ELSE str

RECURSIVE TrimEnd(_)
TrimEnd(str) ==
    IF str # << >> /\ str[Len(str)] \in WhiteSpace
      THEN TrimEnd(SubSeq(str, 1, Len(str) - 1))
      ELSE str

\* String.prototype.trim.
trim(str) == TrimEnd(TrimStart(str))

\* The contacts the list shows: those whose name contains the search term,
\* letter case apart.
filteredContacts ==
    SelectSeq(contacts, LAMBDA contact :
                  includes(toLowerCase(contact.name), toLowerCase(searchTerm)))

\* The values the change events of the search input carry.
Inputs ==
    { <<" ">>,
      <<" ", "I", "A">>,
      <<"a", "N", " ">>,
      <<"x">> }

\* handleChangeSearchTerm; the input is rendered while there are contacts.
HandleChangeSearchTerm(value) ==
    /\ contacts # << >>
    /\ searchTerm' = trim(value)
    /\ typed' = value
    /\ UNCHANGED <<isLoading, isDeletingContact, hasError, contacts, orderBy,
                   showDeleteModal, contactBeingDeleted, loadReqs, deleteReqs,
                   server>>
    /\ UNCHANGED toastVars
    /\ lastOp' = [op |-> "search", pub |-> 0, id |-> 0]

\* The sequence s without its k-th element.
RemoveAt(s, k) == [i \in 1..(Len(s) - 1) |-> IF i < k THEN s[i] ELSE s[i + 1]]

\* The ids of a set in ascending order.
RECURSIVE Ascending(_)
Ascending(S) ==
    IF S = {} THEN << >>
    ELSE LET m == CHOOSE x \in S : \A y \in S : x <= y
         IN  <<m>> \o Ascending(S \ {m})

Reverse(s) == [i \in 1..Len(s) |-> s[Len(s) + 1 - i]]

\* ContactsService.listContacts(orderBy): the API's contacts, ordered by name.
listContacts(held, order) ==
    LET asc == [i \in 1..Cardinality(held) |-> ContactOf(Ascending(held)[i])]
    IN  IF order = "ASC" THEN asc ELSE Reverse(asc)

\* loadContacts up to its await: setIsLoading(true), then the request.
LoadStart(order) ==
    /\ Len(loadReqs) < MaxLoads
    /\ isLoading' = TRUE
    /\ loadReqs' = Append(loadReqs, order)

\* Mutant: the toggle goes ahead while a load is running.
ToggleBlockedNever == FALSE

\* The early return of handleToggleOrderBy.
ToggleBlocked == isLoading

\* handleToggleOrderBy; the changed orderBy re-runs the loadContacts effect.
HandleToggleOrderBy ==
    /\ ~hasError
    /\ filteredContacts # << >>
    /\ IF ToggleBlocked
         THEN UNCHANGED <<orderBy, isLoading, loadReqs>>
         ELSE /\ orderBy' = (IF orderBy = "ASC" THEN "DESC" ELSE "ASC")
              /\ LoadStart(orderBy')
    /\ UNCHANGED <<isDeletingContact, hasError, contacts, showDeleteModal,
                   contactBeingDeleted, deleteReqs, server>>
    /\ UNCHANGED <<searchTerm, typed>>
    /\ UNCHANGED toastVars
    /\ lastOp' = [op |-> "toggle", pub |-> 0, id |-> 0]

\* The button "Tentar novamente": onClick={loadContacts}.
RetryLoad ==
    /\ hasError
    /\ LoadStart(orderBy)
    /\ UNCHANGED <<isDeletingContact, hasError, contacts, orderBy, showDeleteModal,
                   contactBeingDeleted, deleteReqs, server>>
    /\ UNCHANGED <<searchTerm, typed>>
    /\ UNCHANGED toastVars
    /\ lastOp' = [op |-> "retry", pub |-> 0, id |-> 0]

\* Mutant: loadContacts without its finally block, isLoading reset on success
\* only.
LoadSettleNoFinally(k, ok) ==
    /\ k \in 1..Len(loadReqs)
    /\ loadReqs' = RemoveAt(loadReqs, k)
    /\ IF ok
         THEN /\ contacts' = listContacts(server, loadReqs[k])
              /\ hasError' = FALSE
              /\ isLoading' = FALSE
         ELSE /\ hasError' = TRUE
              /\ UNCHANGED <<contacts, isLoading>>
    /\ UNCHANGED <<isDeletingContact, orderBy, showDeleteModal,
                   contactBeingDeleted, deleteReqs, server>>
    /\ UNCHANGED <<searchTerm, typed>>
    /\ UNCHANGED toastVars
    /\ lastOp' = [op |-> (IF ok THEN "loaded" ELSE "loadfailed"),
                  pub |-> 0, id |-> 0]

\* loadContacts after its await: the k-th request in flight settles.
LoadSettle(k, ok) ==
    /\ k \in 1..Len(loadReqs)
    /\ loadReqs' = RemoveAt(loadReqs, k)
    /\ IF ok
         THEN /\ contacts' = listContacts(server, loadReqs[k])
              /\ hasError' = FALSE
         ELSE /\ hasError' = TRUE
              /\ UNCHANGED contacts
    /\ isLoading' = FALSE
    /\ UNCHANGED <<isDeletingContact, orderBy, showDeleteModal,
                   contactBeingDeleted, deleteReqs, server>>
    /\ UNCHANGED <<searchTerm, typed>>
    /\ UNCHANGED toastVars
    /\ lastOp' = [op |-> (IF ok THEN "loaded" ELSE "loadfailed"),
                  pub |-> 0, id |-> 0]

\* handleDeleteContactClick(contact), from the card of a listed contact.
HandleDeleteContactClick(i) ==
    /\ ~hasError
    /\ i \in 1..Len(filteredContacts)
    /\ contactBeingDeleted' = filteredContacts[i]
    /\ showDeleteModal' = TRUE
    /\ UNCHANGED <<isLoading, isDeletingContact, hasError, contacts, orderBy,
                   loadReqs, deleteReqs, server>>
    /\ UNCHANGED <<searchTerm, typed>>
    /\ UNCHANGED toastVars
    /\ lastOp' = [op |-> "click", pub |-> 0, id |-> 0]

\* Mutant: cancel forgets the contact and leaves the modal open.
HandleCloseDeleteModalKeepOpen ==
    /\ showDeleteModal
    /\ contactBeingDeleted' = NoContact
    /\ UNCHANGED <<isLoading, isDeletingContact, hasError, contacts, orderBy,
                   showDeleteModal, loadReqs, deleteReqs, server>>
    /\ UNCHANGED <<searchTerm, typed>>
    /\ UNCHANGED toastVars
    /\ lastOp' = [op |-> "cancel", pub |-> 0, id |-> 0]

\* handleCloseDeleteModal, the modal's onCancel.
HandleCloseDeleteModal ==
    /\ showDeleteModal
    /\ contactBeingDeleted' = NoContact
    /\ showDeleteModal' = FALSE
    /\ UNCHANGED <<isLoading, isDeletingContact, hasError, contacts, orderBy,
                   loadReqs, deleteReqs, server>>
    /\ UNCHANGED <<searchTerm, typed>>
    /\ UNCHANGED toastVars
    /\ lastOp' = [op |-> "cancel", pub |-> 0, id |-> 0]

\* handleConfirmDeleteContact up to its await, the modal's onConfirm. With no
\* contact selected the function returns through its finally block.
ConfirmStart ==
    /\ showDeleteModal
    /\ Len(deleteReqs) < MaxInFlight
    /\ IF contactBeingDeleted = NoContact
         THEN /\ isDeletingContact' = FALSE
              /\ showDeleteModal' = FALSE
              /\ UNCHANGED deleteReqs
         ELSE /\ isDeletingContact' = TRUE
              /\ deleteReqs' = Append(deleteReqs, contactBeingDeleted)
              /\ UNCHANGED showDeleteModal
    /\ UNCHANGED <<isLoading, hasError, contacts, orderBy, contactBeingDeleted,
                   loadReqs, server>>
    /\ UNCHANGED <<searchTerm, typed>>
    /\ UNCHANGED toastVars
    /\ lastOp' = [op |-> "confirm", pub |-> 0, id |-> 0]

\* The contacts left after the deleted one is filtered out of the list.
WithoutContact(prevState, id) ==
    SelectSeq(prevState, LAMBDA contact : contact.id # id)

\* Mutant: the filter reads the contact selected when the request settles.
DeletedIdCurrent(k) == contactBeingDeleted.id

\* The id the filter compares with: contactBeingDeleted as the handler's
\* closure captured it when confirm was invoked.
DeletedId(k) == deleteReqs[k].id

\* handleConfirmDeleteContact after its await, deleteContact having succeeded.
DeleteSucceed(k) ==
    /\ k \in 1..Len(deleteReqs)
    /\ Len(log) < MaxPublish
    /\ deleteReqs' = RemoveAt(deleteReqs, k)
    /\ server' = server \ {deleteReqs[k].id}
    /\ contacts' = WithoutContact(contacts, DeletedId(k))
    /\ contactBeingDeleted' = NoContact
    /\ \E rnd \in Ids : Emit(SuccessPayload, rnd, "deleted")
    /\ isDeletingContact' = FALSE
    /\ showDeleteModal' = FALSE
    /\ UNCHANGED <<isLoading, hasError, orderBy, loadReqs, searchTerm, typed>>

\* Mutant: the catch block announces a success.
CatchPayloadSuccess == SuccessPayload

\* What the catch block of handleConfirmDeleteContact publishes.
CatchPayload == DangerPayload

\* handleConfirmDeleteContact after its await, deleteContact having failed.
DeleteFail(k) ==
    /\ k \in 1..Len(deleteReqs)
    /\ Len(log) < MaxPublish
    /\ deleteReqs' = RemoveAt(deleteReqs, k)
    /\ \E rnd \in Ids : Emit(CatchPayload, rnd, "deletefailed")
    /\ isDeletingContact' = FALSE
    /\ showDeleteModal' = FALSE
    /\ UNCHANGED <<isLoading, hasError, contacts, orderBy, contactBeingDeleted,
                   loadReqs, server, searchTerm, typed>>

(* --------------------------- specification ---------------------------- *)

\* Both components as constructed; Home's first effect has called loadContacts.
Init ==
    /\ listeners = [ev \in EventNames |-> << >>]
    /\ mounted = FALSE
    /\ instance = 0
    /\ messages = << >>
    /\ timers = {}
    /\ log = << >>
    /\ calls = << >>
    /\ mountAt = 0
    /\ removed = FALSE
    /\ dismissed = {}
    /\ lastOp = [op |-> "init", pub |-> 0, id |-> 0]
    /\ isLoading = TRUE
    /\ isDeletingContact = FALSE
    /\ hasError = FALSE
    /\ contacts = << >>
    /\ orderBy = "ASC"
    /\ searchTerm = << >>
    /\ typed = << >>
    /\ showDeleteModal = FALSE
    /\ contactBeingDeleted = NoContact
    /\ loadReqs = <<"ASC">>
    /\ deleteReqs = << >>
    /\ server = ContactIds

NotifyAny == \E p \in Payloads : Notify(p)

DismissAny == \E i \in 1..MaxPublish : Dismiss(i)

TimerFireAny == \E n \in 1..MaxPublish : TimerFire(n)

RemoveCallAny == \E id \in Ids : RemoveCall(id)

\* The notification surface and the callers of the bridge.
NextToast ==
    \/ Mount
    \/ Unmount
    \/ NotifyAny
    \/ DismissAny
    \/ TimerFireAny
    \/ RemoveCallAny

LoadSettleAny == \E k \in 1..MaxLoads, ok \in BOOLEAN : LoadSettle(k, ok)

DeleteClickAny == \E i \in 1..NumContacts : HandleDeleteContactClick(i)

DeleteSucceedAny == \E k \in 1..MaxInFlight : DeleteSucceed(k)

DeleteFailAny == \E k \in 1..MaxInFlight : DeleteFail(k)

ChangeSearchTermAny == \E value \in Inputs : HandleChangeSearchTerm(value)

\* The Home page, its search input left empty.
NextHome ==
    \/ HandleToggleOrderBy
    \/ RetryLoad
    \/ LoadSettleAny
    \/ DeleteClickAny
    \/ HandleCloseDeleteModal
    \/ ConfirmStart
    \/ DeleteSucceedAny
    \/ DeleteFailAny

Next == NextToast \/ NextHome \/ ChangeSearchTermAny

\* The whole program.
Spec == Init /\ [][Next]_vars

\* The notification surface alone, Home idle.
SpecToast == Init /\ [][NextToast]_vars

\* The Home page alone, the notification surface never mounted.
SpecHome == Init /\ [][NextHome]_vars

\* Home's contact deletion as the only publisher, with the surface.
NextDelete ==
    \/ Mount
    \/ Unmount
    \/ DismissAny
    \/ TimerFireAny
    \/ LoadSettleAny
    \/ DeleteClickAny
    \/ HandleCloseDeleteModal
    \/ ConfirmStart
    \/ DeleteSucceedAny
    \/ DeleteFailAny

SpecDelete == Init /\ [][NextDelete]_vars

\* The Home page with its search input: loading, ordering, searching and
\* deleting the contacts listed.
NextSearch ==
    \/ ChangeSearchTermAny
    \/ HandleToggleOrderBy
    \/ LoadSettleAny
    \/ DeleteClickAny
    \/ ConfirmStart
    \/ DeleteSucceedAny

SpecSearch == Init /\ [][NextSearch]_vars

SubscribeAny == \E ev \in EventNames, h \in Probes : Subscribe(ev, h)

UnsubscribeAny == \E ev \in EventNames, h \in Probes : Unsubscribe(ev, h)

\* The bridge with the surface and other subscribers on both event names.
\* Notifications stop once MaxPublish publishes and invocations are recorded.
NextBridge ==
    \/ Mount
    \/ Len(calls) + Len(log) < MaxPublish /\ NotifyAny
    \/ SubscribeAny
    \/ UnsubscribeAny
    \/ PublishOther

SpecBridge == Init /\ [][NextBridge]_vars

\* The notification surface from its mount on, for as long as it stays
\* mounted.
NextMounted ==
    \/ Mount
    \/ NotifyAny
    \/ DismissAny
    \/ TimerFireAny
    \/ RemoveCallAny

\* The surface staying mounted, every pending timer eventually elapsing.
FairToast ==
    /\ Init
    /\ [][NextMounted]_vars
    /\ \A n \in 1..MaxPublish : WF_vars(TimerFire(n))

(* ------------------------------ claims -------------------------------- *)

PayloadOf(m) == [type |-> m.type, text |-> m.text]

EmitOps == {"notify", "deleted", "deletefailed"}

RemoveOps == {"dismiss", "timer", "remove"}

\* The entries of a list whose identity is not id.
Others(msgs, id) == SelectSeq(msgs, LAMBDA m : m.id # id)

\* C1: with the surface mounted and no removal since, the visible list is
\* exactly the payloads published since the mount, in publish order.
C1_PublishOrder ==
    (mounted /\ ~removed) =>
        /\ Len(messages) = Len(log) - mountAt
        /\ \A i \in 1..Len(messages) :
              PayloadOf(messages[i]) = log[mountAt + i].payload

C1_Witness ==
    /\ mounted
    /\ ~removed
    /\ Len(messages) = 3
    /\ PayloadOf(messages[1]) # PayloadOf(messages[2])
    /\ PayloadOf(messages[2]) # PayloadOf(messages[3])

\* How often handler h was invoked for publish k.
Count(h, k) == Cardinality({i \in 1..Len(calls) : calls[i] = [h |-> h, pub |-> k]})

\* C2: each mount's handler is invoked exactly once for every publish made
\* while it was subscribed and never for any other publish, and a surface
\* that is torn down holds no entry.
C2_OncePerPublish ==
    /\ \A k \in 1..Len(log) : \A h \in 1..MaxMounts :
          Count(h, k) = (IF h \in log[k].subs THEN 1 ELSE 0)
    /\ ~mounted => messages = << >>

C2_Witness ==
    /\ ~mounted
    /\ instance = 2
    /\ Len(log) = 3
    /\ log[1].subs = {1}
    /\ log[2].subs = {}
    /\ log[3].subs = {2}

\* C3: a publish made while no handler is subscribed invokes nothing and
\* changes nothing of the surface or the bridge, and it is never delivered
\* later: every entry of a mounted surface comes from a publish made after
\* that mount subscribed.
C3_DroppedNotQueued ==
    /\ [](\A k \in 1..Len(log) :
            log[k].subs = {} => \A i \in 1..Len(calls) : calls[i].pub # k)
    /\ [](\A i \in 1..Len(messages) : messages[i].pub > mountAt)
    /\ [][(lastOp'.op \in EmitOps /\ listeners["addtoast"] = << >>) =>
            /\ log' = Append(log, [payload |-> log'[Len(log')].payload, subs |-> {}])
            /\ UNCHANGED <<listeners, mounted, instance, messages, timers, calls>>]_vars

C3_Witness ==
    /\ mounted
    /\ lastOp.op = "mount"
    /\ Len(log) = 2
    /\ log[1].subs = {}
    /\ log[2].subs = {}
    /\ messages = << >>

\* C4: a remove(identity) call shortens the visible list by exactly 1 when an
\* entry has that identity and by 0 when none has, and the same call made
\* again changes nothing.
C4_RemoveByOne ==
    [][(mounted /\ lastOp'.op \in RemoveOps) =>
          /\ Len(messages') = Len(messages) -
                (IF lastOp'.id \in IdsOf(messages) THEN 1 ELSE 0)
          /\ handleRemoveMessage(messages', lastOp'.id) = messages']_vars

\* C5: no two entries of the visible list have the same identity.
C5_UniqueIdentity ==
    \A i \in 1..Len(messages) : \A j \in 1..Len(messages) :
        i # j => messages[i].id # messages[j].id

\* C6: while the surface is mounted the list changes only by a publish or a
\* removal. A publish adds one entry, built from the published payload, and
\* leaves the entries already there as they were, in their order; a removal
\* adds nothing and leaves every entry of another identity as it was, in its
\* order; and every entry shows the payload it was created from.
C6_Frame ==
    /\ [](\A i \in 1..Len(messages) :
            /\ messages[i].pub \in 1..Len(log)
            /\ PayloadOf(messages[i]) = log[messages[i].pub].payload)
    /\ [][(mounted /\ mounted') =>
            \/ messages' = messages
            \/ /\ lastOp'.op \in EmitOps
               /\ Len(messages') = Len(messages) + 1
               /\ \E k \in 1..Len(messages') :
                     /\ RemoveAt(messages', k) = messages
                     /\ messages'[k].pub = Len(log')
                     /\ PayloadOf(messages'[k]) = log'[Len(log')].payload
            \/ /\ lastOp'.op \in RemoveOps
               /\ Len(messages') < Len(messages)
               /\ Others(messages', lastOp'.id) = Others(messages, lastOp'.id)
               /\ Pubs(messages') \subseteq Pubs(messages)]_vars

C6_Witness ==
    /\ mounted
    /\ lastOp.op = "dismiss"
    /\ Len(messages) = 2
    /\ Len(log) = 3
    /\ messages[1].pub = 1
    /\ messages[2].pub = 3

C8_DeleteToast ==
    [][/\ (mounted /\ lastOp'.op = "deleted") =>
            /\ log' = Append(log, [payload |-> SuccessPayload, subs |-> {instance}])
            /\ Len(messages') = Len(messages) + 1
            /\ messages' = Append(messages, messages'[Len(messages')])
            /\ PayloadOf(messages'[Len(messages')]) = SuccessPayload
            /\ messages'[Len(messages')].pub = Len(log')
       /\ (mounted /\ lastOp'.op = "dismiss"
              /\ log[lastOp'.pub].payload = SuccessPayload) =>
            /\ Len(messages') = Len(messages) - 1
            /\ Pubs(messages') = Pubs(messages) \ {lastOp'.pub}]_vars

\* C9: every entry of the visible list is eventually gone from it, and an
\* entry that is gone never comes back.
C9_Lifecycle ==
    /\ \A n \in 1..MaxPublish :
          (n \in Pubs(messages)) ~> (n \notin Pubs(messages))
    /\ [][\A n \in 1..Len(log) :
            n \notin Pubs(messages) => n \notin Pubs(messages')]_vars

C9_Witness ==
    /\ mounted
    /\ lastOp.op = "timer"
    /\ lastOp.pub = 2
    /\ Pubs(messages) = {1, 3}

\* C10: every pending timer belongs to an entry of the visible list of the
\* mounted surface, so no timer elapses for an entry that was removed or
\* whose surface is gone.
C10_TimerCancelled ==
    /\ [](\A t \in timers :
            /\ mounted
            /\ \E i \in 1..Len(messages) :
                  messages[i].pub = t.pub /\ messages[i].id = t.id)
    /\ [][lastOp'.op = "timer" =>
            /\ mounted
            /\ lastOp'.pub \in Pubs(messages)]_vars

C10_Witness ==
    /\ mounted
    /\ lastOp.op = "dismiss"
    /\ lastOp.pub = 1
    /\ Cardinality(timers) = 1
    /\ Pubs(messages) = {2}

\* The handlers of a registration list.
Registered(hs) == {hs[i] : i \in 1..Len(hs)}

\* C11: a publish invokes, within the publish itself, exactly the handlers
\* registered for its event name at that moment, each once and in
\* registration order, and no handler of another event name; the bridge
\* keeps the handlers of each event in the order they registered.
C11_PublishDispatch ==
    [][/\ lastOp'.op \in EmitOps =>
            /\ Len(calls') = Len(calls) + Len(listeners["addtoast"])
            /\ \A i \in 1..Len(listeners["addtoast"]) :
                  calls'[Len(calls) + i] =
                      [h |-> listeners["addtoast"][i], pub |-> Len(log')]
            /\ SubSeq(calls', 1, Len(calls)) = calls
       /\ lastOp'.op = "publish" =>
            /\ Len(calls') = Len(calls) + Len(listeners[OtherEvent])
            /\ \A i \in 1..Len(listeners[OtherEvent]) :
                  calls'[Len(calls) + i] =
                      [h |-> listeners[OtherEvent][i], pub |-> 0]
            /\ SubSeq(calls', 1, Len(calls)) = calls
       /\ lastOp'.op \notin (EmitOps \cup {"publish"}) => calls' = calls
       /\ \A ev \in EventNames :
            LET old == listeners[ev]
                new == listeners'[ev]
            IN  /\ SelectSeq(new, LAMBDA h : h \in Registered(old)) =
                      SelectSeq(old, LAMBDA h : h \in Registered(new))
                /\ \A i \in 1..Len(new) : \A j \in 1..Len(new) :
                      (i < j /\ new[j] \in Registered(old)) =>
                          new[i] \in Registered(old)]_vars

C11_Witness ==
    /\ lastOp.op = "notify"
    /\ listeners["addtoast"] = <<0 - 1, 1>>
    /\ listeners[OtherEvent] = <<0 - 1>>
    /\ calls = <<[h |-> 0 - 1, pub |-> 1], [h |-> 1, pub |-> 1]>>

\* C12: when deleteContact fails, the completion of the confirm handler
\* leaves the contacts list as it was, publishes exactly one notification,
\* the danger one and no success one, and ends with isDeletingContact and
\* showDeleteModal both false.
C12_DeleteFailure ==
    [][lastOp'.op = "deletefailed" =>
          /\ contacts' = contacts
          /\ Len(log') = Len(log) + 1
          /\ SubSeq(log', 1, Len(log)) = log
          /\ log'[Len(log')].payload = DangerPayload
          /\ log'[Len(log')].payload # SuccessPayload
          /\ ~isDeletingContact'
          /\ ~showDeleteModal']_vars

C12_Witness ==
    /\ lastOp.op = "deletefailed"
    /\ Len(contacts) = NumContacts
    /\ contactBeingDeleted = ContactOf(1)
    /\ Len(log) = 1
    /\ log[1].payload = DangerPayload
    /\ ~isDeletingContact
    /\ ~showDeleteModal

\* C13: confirm sends the request for the contact selected at that moment;
\* the confirm handler removes a contact from the list only in the step where
\* such a request succeeds, and what it removes is that request's contact,
\* the one selected when confirm was invoked, whatever is selected by then.
C13_DeleteSelected ==
    [][/\ (lastOp'.op = "confirm" /\ contactBeingDeleted # NoContact) =>
            deleteReqs' = Append(deleteReqs, contactBeingDeleted)
       /\ lastOp'.op = "deleted" =>
            \E k \in 1..Len(deleteReqs) :
               /\ deleteReqs' = RemoveAt(deleteReqs, k)
               /\ deleteReqs[k].id \notin server'
               /\ contacts' =
                     SelectSeq(contacts, LAMBDA c : c # deleteReqs[k])
       /\ lastOp'.op \in {"confirm", "deletefailed"} => contacts' = contacts]_vars

C13_Witness ==
    /\ lastOp.op = "deleted"
    /\ contacts = <<ContactOf(2)>>
    /\ server = ContactIds \ {1}
    /\ deleteReqs = << >>
    /\ contactBeingDeleted = NoContact

\* C14: in every reachable state of Home, whatever the interleaving of
\* delete clicks, cancels, confirms and request completions, an open delete
\* modal has a contact selected.
C14_ModalHasContact == showDeleteModal => contactBeingDeleted # NoContact

C14_Witness ==
    /\ showDeleteModal
    /\ isDeletingContact
    /\ deleteReqs = <<ContactOf(1)>>
    /\ contactBeingDeleted = ContactOf(2)
    /\ lastOp.op = "click"

\* The ids of the contacts of a list.
ContactIdsOf(list) == {list[i].id : i \in 1..Len(list)}

\* C15: in every reachable state of Home, isLoading is false only when no
\* listContacts request is in flight, and whenever isLoading and hasError are
\* both false the contacts are in the order listContacts gives for the
\* current orderBy.
C15_LoadingTracksRequests ==
    /\ ~isLoading => loadReqs = << >>
    /\ (~isLoading /\ ~hasError) =>
          contacts = listContacts(ContactIdsOf(contacts), orderBy)

\* C16: a toggle of the order while isLoading is true changes no state
\* variable and starts no request; while isLoading is false it flips orderBy
\* and starts exactly one listContacts request, with the new order.
C16_ToggleOrder ==
    [][lastOp'.op = "toggle" =>
          IF isLoading
            THEN UNCHANGED <<homeVars, toastVars>>
            ELSE /\ orderBy' = (IF orderBy = "ASC" THEN "DESC" ELSE "ASC")
                 /\ loadReqs' = Append(loadReqs, orderBy')
                 /\ isLoading'
                 /\ UNCHANGED <<isDeletingContact, hasError, contacts,
                                searchTerm, showDeleteModal,
                                contactBeingDeleted, deleteReqs, server>>
                 /\ UNCHANGED toastVars]_vars

C16_Witness ==
    /\ lastOp.op = "toggle"
    /\ isLoading
    /\ orderBy = "DESC"
    /\ loadReqs = <<"DESC">>
    /\ Len(contacts) = NumContacts

\* C17: every loadContacts call that settles ends with isLoading false; a
\* successful one replaces contacts with the fetched list, the API's contacts
\* in the order the call asked for, and sets hasError false; a failed one sets
\* hasError true and leaves the previous contacts as they were.
C17_LoadSettles ==
    [][/\ lastOp'.op = "loaded" =>
            /\ ~isLoading'
            /\ ~hasError'
            /\ ContactIdsOf(contacts') = server
            /\ Len(contacts') = Cardinality(server)
            /\ \A i \in 1..Len(contacts') :
                  contacts'[i] = ContactOf(contacts'[i].id)
            /\ \E k \in 1..Len(loadReqs) :
                  /\ loadReqs' = RemoveAt(loadReqs, k)
                  /\ \A i \in 1..Len(contacts') : \A j \in 1..Len(contacts') :
                        i < j =>
                          IF loadReqs[k] = "ASC"
                            THEN contacts'[i].id < contacts'[j].id
                            ELSE contacts'[i].id > contacts'[j].id
       /\ lastOp'.op = "loadfailed" =>
            /\ ~isLoading'
            /\ hasError'
            /\ contacts' = contacts]_vars

C17_Witness ==
    /\ lastOp.op = "loadfailed"
    /\ ~isLoading
    /\ hasError
    /\ contacts = <<ContactOf(2), ContactOf(1)>>
    /\ loadReqs = << >>

\* The contact of a list that has the given id.
WithId(list, id) == list[CHOOSE i \in 1..Len(list) : list[i].id = id]

\* The same character, or the upper and the lower case of one letter.
SameLetter(c, d) ==
    \/ c = d
    \/ \E u \in 1..Len(UpperCase) : {c, d} = {UpperCase[u], LowerCase[u]}

\* The name has, somewhere, the characters of the term, letter case apart.
Matches(name, term) ==
    \E k \in 0..Len(name) :
       /\ k + Len(term) <= Len(name)
       /\ \A j \in 1..Len(term) : SameLetter(name[k + j], term[j])

\* C18: filteredContacts is the subsequence of contacts, in the same relative
\* order, of the contacts whose lower-cased name contains the lower-cased
\* searchTerm; searchTerm is the last input value without its leading and
\* trailing white space; with an empty searchTerm filteredContacts is
\* contacts.
C18_FilteredContacts ==
    /\ \A i \in 1..Len(contacts) :
          Matches(contacts[i].name, searchTerm) <=>
              \E j \in 1..Len(filteredContacts) : filteredContacts[j] = contacts[i]
    /\ \A j \in 1..Len(filteredContacts) :
          \E i \in 1..Len(contacts) : contacts[i] = filteredContacts[j]
    /\ Len(filteredContacts) = Cardinality(ContactIdsOf(filteredContacts))
    /\ \A i \in 1..Len(contacts) : \A j \in 1..Len(contacts) :
          (i < j /\ Matches(contacts[i].name, searchTerm)
                 /\ Matches(contacts[j].name, searchTerm)) =>
              \E a \in 1..Len(filteredContacts) : \E b \in 1..Len(filteredContacts) :
                 /\ a < b
                 /\ filteredContacts[a] = contacts[i]
                 /\ filteredContacts[b] = contacts[j]
    /\ \E a \in 0..Len(typed) : \E b \in a..Len(typed) :
          /\ searchTerm = SubSeq(typed, a + 1, b)
          /\ \A i \in (1..a) \cup ((b + 1)..Len(typed)) : typed[i] \in WhiteSpace
          /\ searchTerm # << >> =>
                /\ searchTerm[1] \notin WhiteSpace
                /\ searchTerm[Len(searchTerm)] \notin WhiteSpace
    /\ searchTerm = << >> => filteredContacts = contacts

C18_Witness ==
    /\ typed = <<" ", "I", "A">>
    /\ searchTerm = <<"I", "A">>
    /\ Len(contacts) = NumContacts
    /\ filteredContacts = <<ContactOf(2)>>
    /\ lastOp.op = "search"

====
